---- MODULE Spec2Model ----
(***************************************************************************)
(* A model of tap-context-got: class TAPContextGot (request normalisation  *)
(* over the got transport) and TAPContextGot.setup (the assertions and the *)
(* setup/teardown hooks it registers on tap).  Two variants of the source  *)
(* exist: src/index.js ("index") and src/unnamed/part_000 ("part000").     *)
(*                                                                         *)
(* A JavaScript object is a function from its own keys to values; a key    *)
(* that is not in the DOMAIN is an absent property.                        *)
(***************************************************************************)
EXTENDS Integers, Sequences, FiniteSets, TLC

\* Calls that may be in flight on one context at the same time.
MaxInFlight == 2
\* Test cases of one test run.
MaxTests == 2

Slots == 1..MaxInFlight
Variants == {"index", "part000"}
Paths == {"/widgets/1"}

VARIABLES
    variant,            \* which source file is loaded
    genericGotOptions,  \* genericGotOptions of every constructed context, by context id
    jars,               \* cookies held by each context's CookieJar
    caches,             \* urls held by each context's cache Map
    calls,              \* the async calls: position, arguments, local options, result
    run,                \* the test run: setup, hooks, lifecycle log
    test                \* the running test case and its assertion

vars == <<variant, genericGotOptions, jars, caches, calls, run, test>>

----------------------------------------------------------------------------
\* JavaScript objects

NoProps == <<>>

\* {...a, ...b}
Spread(a, b) ==
    [k \in (DOMAIN a) \cup (DOMAIN b) |-> IF k \in DOMAIN b THEN b[k] ELSE a[k]]

\* delete o[key]
Without(o, key) == [k \in (DOMAIN o) \ {key} |-> o[k]]

\* o[key] = v
With(o, key, v) == [k \in (DOMAIN o) \cup {key} |-> IF k = key THEN v ELSE o[k]]

\* o[key], undef standing for undefined
Get(o, key, undef) == IF key \in DOMAIN o THEN o[key] ELSE undef

\* References and primitives a `cache` or `cookieJar` property can hold.
\* id > 0: the object owned by context id; id = 0: a value of the caller's.
Ref(t, id) == [t |-> t, id |-> id]
UndefinedRef == Ref("undefined", 0)
Falsy(v) == v.t \in {"undefined", "false", "null", "zero"}

\* Request bodies: undefined, a literal value, a Multipart handle, or a
\* zero-argument function (ret: what it returns, or that it throws).
Body(tag, v, ret) == [tag |-> tag, v |-> v, ret |-> ret]
UndefBody == Body("undefined", "none", "none")
Lit(v) == Body("literal", v, "none")
Mp(h) == Body("multipart", h, "none")
Fn(ret, v) == Body("function", v, ret)

\* options.body()
Invoke(b) ==
    CASE b.ret = "literal" -> Lit(b.v)
      [] b.ret = "multipart" -> Mp(b.v)
      [] OTHER -> UndefBody

\* JSON.stringify(value): undefined stays undefined, anything else is text
JSONstringify(b) ==
    IF b.tag \in {"undefined", "function"} THEN UndefBody ELSE Body("jsontext", b.v, "none")

\* await data.buffer()
Buffer(data) == Body("buffer", data.v, "none")

\* data.getHeaders(chunked)
getHeaders(data, chunked) ==
    LET type == "content-type" :> ("multipart/form-data; boundary=" \o data.v)
    IN IF chunked THEN Spread(type, "transfer-encoding" :> "chunked") ELSE type

JSONHeader == "Content-Type" :> "application/json"

----------------------------------------------------------------------------
\* The class fields of a context (constructed as context number id)

NewGotOptions(id) ==
    [cache |-> Ref("Map", id), timeout |-> 10000, cookieJar |-> Ref("CookieJar", id)]

\* /Response code N/u as the words it searches for
Pattern(code) == <<"Response", "code", code>>
httpError == [code \in {"400", "404", "405"} |-> Pattern(code)]

----------------------------------------------------------------------------
\* What one call works on: the context's default options object, the options
\* object the caller passed, and the call's own `options` variable; how often
\* a body function was invoked, the order of the steps taken, and whether the
\* body function threw.

Frame(generic, caller) ==
    [generic |-> generic, caller |-> caller, local |-> NoProps,
     invoked |-> 0, events |-> <<>>, thrown |-> FALSE]

\* api(api, options): {...this.genericGotOptions, ...options}
apiOptions(f) == [f EXCEPT !.local = Spread(f.generic, f.caller)]

\* delete(api, options): api(api, {...options, method: 'DELETE'})
deleteOptions(f) ==
    [f EXCEPT !.local = Spread(f.generic, Spread(f.caller, [method |-> "DELETE"]))]

\* withBodyMerge without `delete options.cache`
withBodyMerge_KeepCache(f, method, v) ==
    LET spread == Spread(Spread([headers |-> NoProps], f.generic), f.caller)
    IN [f EXCEPT !.local = IF v = "part000" THEN With(spread, "method", method) ELSE spread]

\* withBodyMerge merging into this.genericGotOptions instead of a new object
withBodyMerge_InPlace(f, method, v) ==
    LET cache == Get(f.caller, "cache", UndefinedRef)
        spread == Spread(Spread([headers |-> NoProps], f.generic), f.caller)
        merged == IF v = "part000" THEN With(spread, "method", method) ELSE spread
        local == IF Falsy(cache) THEN Without(merged, "cache") ELSE merged
    IN [f EXCEPT !.local = local, !.generic = local]

\* _withBody / post: take `cache` out of the caller's options, merge, force the
\* method (part000 only: index.js calls got.post), drop a falsy cache
withBodyMerge(f, method, v) ==
    LET cache == Get(f.caller, "cache", UndefinedRef)
        spread == Spread(Spread([headers |-> NoProps], f.generic), f.caller)
        merged == IF v = "part000" THEN With(spread, "method", method) ELSE spread
    IN [f EXCEPT !.local = IF Falsy(cache) THEN Without(merged, "cache") ELSE merged]

\* if (typeof options.body === 'function') options.body = options.body()
resolveBody(f) ==
    LET body == Get(f.local, "body", UndefBody)
    IN IF body.tag # "function" THEN f
       ELSE [f EXCEPT !.invoked = @ + 1,
                      !.events = Append(@, "invoke"),
                      !.thrown = (body.ret = "throw"),
                      !.local = IF body.ret = "throw" THEN @ ELSE With(@, "body", Invoke(body))]

\* options.body instanceof Multipart
isMultipart(f) == Get(f.local, "body", UndefBody).tag = "multipart"

\* options.json !== false
jsonWanted(f) == Get(f.local, "json", TRUE) # FALSE

\* the Multipart branch, after data.buffer() has resolved
multipartBranch(f) ==
    LET data == f.local.body
    IN [f EXCEPT !.events = Append(@, "multipart"),
                 !.local = With(With(@, "body", Buffer(data)), "headers",
                                Spread(getHeaders(data, FALSE), Get(@, "headers", NoProps)))]

\* jsonBranch with the spread reversed: {...options.headers, 'Content-Type': ...}
jsonBranch_DefaultWins(f) ==
    [f EXCEPT !.events = Append(@, "json"),
              !.local = With(With(@, "body", JSONstringify(Get(@, "body", UndefBody))), "headers",
                             Spread(Get(@, "headers", NoProps), JSONHeader))]

\* the JSON branch
jsonBranch(f) ==
    [f EXCEPT !.events = Append(@, "json"),
              !.local = With(With(@, "body", JSONstringify(Get(@, "body", UndefBody))), "headers",
                             Spread(JSONHeader, Get(@, "headers", NoProps)))]

\* withBodySync classifying the body before the body function is resolved
withBodySync_ClassifyFirst(f, method, v) ==
    LET m == withBodyMerge(f, method, v)
    IN IF isMultipart(m) THEN resolveBody(m)
       ELSE IF jsonWanted(m) THEN resolveBody(jsonBranch(m))
       ELSE resolveBody([m EXCEPT !.events = Append(@, "verbatim")])

\* withBodySync testing options.json before instanceof Multipart
withBodySync_JsonFirst(f, method, v) ==
    LET r == resolveBody(withBodyMerge(f, method, v))
    IN IF r.thrown THEN r
       ELSE IF jsonWanted(r) THEN jsonBranch(r)
       ELSE IF isMultipart(r) THEN r
       ELSE [r EXCEPT !.events = Append(@, "verbatim")]

\* _withBody / post up to its first await: the frame when the call suspends
\* (on data.buffer() or on got) or rejects (the body function threw)
withBodySync(f, method, v) ==
    LET r == resolveBody(withBodyMerge(f, method, v))
    IN IF r.thrown \/ isMultipart(r) THEN r
       ELSE IF jsonWanted(r) THEN jsonBranch(r)
       ELSE [r EXCEPT !.events = Append(@, "verbatim")]

----------------------------------------------------------------------------
\* The transport (got) and the parse of its reply

Docs ==
    { [id |-> 1, name |-> "bolt"], [id |-> 1, name |-> "bolt", extra |-> TRUE] }

Reply(status, valid, doc, cookies) ==
    [status |-> status, valid |-> valid, doc |-> doc, cookies |-> cookies]

Cookies == {"sid"}

Replies(CookiePool) ==
    { Reply(s, TRUE, NoProps, {}) : s \in {"400", "404", "405", "500", "timeout"} }
    \cup { Reply("200", FALSE, NoProps, ck) : ck \in SUBSET CookiePool }
    \cup { Reply("200", TRUE, d, ck) : d \in Docs, ck \in SUBSET CookiePool }

\* the replies tried when calls overlap
SomeReplies ==
    { Reply("200", TRUE, [id |-> 1, name |-> "bolt"], {}), Reply("200", FALSE, NoProps, {}),
      Reply("404", TRUE, NoProps, {}) }

Result(kind, value, name, message) ==
    [kind |-> kind, value |-> value, name |-> name, message |-> message]
NoResult == Result("none", NoProps, "none", <<>>)

Thrown(name, message) == Result("error", NoProps, name, message)

\* got's outcome: the response on 2xx, an exception otherwise
gotOutcome(reply) ==
    CASE reply.status = "timeout" ->
            Thrown("TimeoutError", <<"Timeout", "awaiting", "request", "for", "10000", "ms">>)
      [] reply.status # "200" ->
            Thrown("HTTPError", <<"Response", "code", reply.status, "(", "error", ")">>)
      [] OTHER -> Result("response", reply.doc, IF reply.valid THEN "json" ELSE "text", <<>>)

\* JSON.parse(body)
JSONparse(response) ==
    IF response.name = "json" THEN Result("value", response.value, "none", <<>>)
    ELSE Thrown("SyntaxError", <<"Unexpected", "token", "<", "in", "JSON">>)

\* what the awaiting method makes of got's outcome: api returns the response,
\* json, post, put and delete parse it; an exception passes through
settle(op, outcome) ==
    IF outcome.kind = "error" \/ op = "api" THEN outcome ELSE JSONparse(outcome)

NoSent == [via |-> "none", url |-> "none", options |-> NoProps, cookies |-> {}]

IdleCall ==
    [pc |-> "idle", op |-> "none", ctx |-> 0, path |-> "none",
     given |-> NoProps, caller |-> NoProps, options |-> NoProps,
     invoked |-> 0, events |-> <<>>, sent |-> NoSent, result |-> NoResult]

\* the jar a cookieJar option refers to holds these cookies
JarOf(options) ==
    LET jar == Get(options, "cookieJar", UndefinedRef)
    IN IF jar.t = "CookieJar" /\ jar.id > 0 THEN jars[jar.id] ELSE {}

\* got(url, options) / got.post(url, options) is called
Sent(via, url, options) ==
    [via |-> via, url |-> url, options |-> options, cookies |-> JarOf(options)]

----------------------------------------------------------------------------
\* The options callers pass

\* an optional property: absent, or present with one of Vals
Prop(key, Vals) == {NoProps} \cup { key :> v : v \in Vals }

CacheArgs ==
    { Ref("undefined", 0), Ref("false", 0), Ref("null", 0), Ref("zero", 0), Ref("Map", 0) }

BodyArgs ==
    { Lit("a"), Mp("m1"), Fn("literal", "a"), Fn("multipart", "m1"),
      Fn("undefined", "none"), Fn("throw", "none") }

HeaderArgs ==
    { NoProps,
      "Content-Type" :> "text/plain",
      "content-type" :> "text/plain",
      "X-Trace" :> "t1",
      Spread("content-type" :> "text/plain", "X-Trace" :> "t1") }

\* every options object post and put are tried with
WithBodyOptions ==
    { Spread(Spread(a, b), Spread(c, d)) :
        a \in Prop("cache", CacheArgs), b \in Prop("body", BodyArgs),
        c \in Prop("headers", HeaderArgs), d \in Prop("json", BOOLEAN) }

\* every options object api, json and delete are tried with
ApiOptions ==
    { Spread(a, b) : a \in Prop("cache", CacheArgs), b \in Prop("method", {"POST"}) }

\* the options objects tried when calls overlap
SomeWithBodyOptions ==
    { [body |-> Lit("a")],
      [body |-> Fn("multipart", "m1"), cache |-> Ref("false", 0),
       headers |-> "content-type" :> "text/plain"],
      [body |-> Mp("m1"), json |-> FALSE, cache |-> Ref("Map", 0)],
      [body |-> Fn("throw", "none")] }

SomeApiOptions == { NoProps, [cache |-> Ref("false", 0)] }

----------------------------------------------------------------------------
\* The calls

\* the test run: where setup and teardown are, the instance's optional hooks,
\* the context the setup test constructed, the hooks registered on tap, the
\* hook calls so far, the test cases begun, and what earlier test cases left
\* in the jar and the cache
IdleRun ==
    [pc |-> "none", hooks |-> [start |-> FALSE, stop |-> FALSE, checkStopped |-> FALSE],
     context |-> 0, beforeEach |-> FALSE, teardown |-> FALSE, log |-> <<>>, cases |-> 0,
     written |-> {}, cached |-> {}]

\* the running test case: t.context, the assertion it calls and its arguments,
\* what the request settled to, and what the assertion told tap
IdleTest ==
    [pc |-> "none", context |-> 0, name |-> "none", api |-> "none", body |-> UndefBody,
     expected |-> NoProps, error |-> "none", options |-> NoProps, message |-> "",
     extra |-> NoProps, outcome |-> NoResult, reports |-> <<>>, threw |-> FALSE]

FrameOf(call) ==
    [generic |-> genericGotOptions[call.ctx], caller |-> call.caller, local |-> call.options,
     invoked |-> call.invoked, events |-> call.events, thrown |-> FALSE]

\* the call in slot c has run to frame f, where it is at pc
Suspend(c, call, f, next, sent, result) ==
    /\ genericGotOptions' = [genericGotOptions EXCEPT ![call.ctx] = f.generic]
    /\ calls' = [calls EXCEPT ![c] =
                    [call EXCEPT !.pc = next, !.caller = f.caller, !.options = f.local,
                                 !.invoked = f.invoked, !.events = f.events,
                                 !.sent = sent, !.result = result]]

NewCall(ctx, op, p, o) ==
    [IdleCall EXCEPT !.op = op, !.ctx = ctx, !.path = p, !.given = o, !.caller = o]

\* api(api, options), and json(api, options) up to its await
api(c, ctx, op, p, o) ==
    /\ calls[c].pc = "idle"
    /\ op \in {"api", "json"}
    /\ LET f == apiOptions(Frame(genericGotOptions[ctx], o))
       IN Suspend(c, NewCall(ctx, op, p, o), f, "awaitGot", Sent("got", p, f.local), NoResult)
    /\ UNCHANGED <<variant, jars, caches>>

\* delete(api, options) up to its await (part000 only)
delete(c, ctx, p, o) ==
    /\ calls[c].pc = "idle"
    /\ variant = "part000"
    /\ LET f == deleteOptions(Frame(genericGotOptions[ctx], o))
       IN Suspend(c, NewCall(ctx, "delete", p, o), f, "awaitGot", Sent("got", p, f.local), NoResult)
    /\ UNCHANGED <<variant, jars, caches>>

\* post(api, options) and put(api, options) (put: part000 only) up to the
\* first await
_withBody(c, ctx, method, p, o) ==
    /\ calls[c].pc = "idle"
    /\ method \in (IF variant = "part000" THEN {"POST", "PUT"} ELSE {"POST"})
    /\ LET f == withBodySync(Frame(genericGotOptions[ctx], o), method, variant)
           via == IF variant = "index" THEN "got.post" ELSE "got"
           call == NewCall(ctx, IF method = "POST" THEN "post" ELSE "put", p, o)
       IN CASE f.thrown ->
                 Suspend(c, call, f, "settled", NoSent, Thrown("Error", <<"body", "threw">>))
            [] ~f.thrown /\ isMultipart(f) ->
                 Suspend(c, call, f, "awaitBuffer", NoSent, NoResult)
            [] OTHER ->
                 Suspend(c, call, f, "awaitGot", Sent(via, p, f.local), NoResult)
    /\ UNCHANGED <<variant, jars, caches>>

\* post(api) / put(api) without an options argument: `const {cache} = options`
\* throws, the call rejects before anything is merged or sent
_withBodyNoOptions(c, ctx, method, p) ==
    /\ calls[c].pc = "idle"
    /\ method \in (IF variant = "part000" THEN {"POST", "PUT"} ELSE {"POST"})
    /\ calls' = [calls EXCEPT ![c] =
                    [NewCall(ctx, IF method = "POST" THEN "post" ELSE "put", p, NoProps)
                        EXCEPT !.pc = "settled",
                               !.result = Thrown("TypeError", <<"Cannot", "destructure", "cache">>)]]
    /\ UNCHANGED <<variant, genericGotOptions, jars, caches>>

\* data.buffer() resolves: the rest of the Multipart branch, then got
bufferResolves(c) ==
    /\ calls[c].pc = "awaitBuffer"
    /\ LET f == multipartBranch(FrameOf(calls[c]))
           via == IF variant = "index" THEN "got.post" ELSE "got"
       IN Suspend(c, calls[c], f, "awaitGot", Sent(via, calls[c].path, f.local), NoResult)
    /\ UNCHANGED <<variant, jars, caches>>

\* got stores the reply's cookies in the jar it was given
jarsAfter(sent, reply) ==
    LET jar == Get(sent.options, "cookieJar", UndefinedRef)
    IN IF jar.t = "CookieJar" /\ jar.id > 0
       THEN [jars EXCEPT ![jar.id] = @ \cup reply.cookies]
       ELSE jars

\* got stores a GET's 2xx reply in the cache Map it was given
cachesAfter(sent, reply) ==
    LET cache == Get(sent.options, "cache", UndefinedRef)
    IN IF /\ cache.t = "Map" /\ cache.id > 0 /\ reply.status = "200"
          /\ sent.via = "got" /\ Get(sent.options, "method", "GET") = "GET"
       THEN [caches EXCEPT ![cache.id] = @ \cup {sent.url}]
       ELSE caches

\* got answers: the awaiting method resumes, parses, and settles
gotReplies(c, reply) ==
    /\ calls[c].pc = "awaitGot"
    /\ calls' = [calls EXCEPT ![c].pc = "settled",
                              ![c].result = settle(calls[c].op, gotOutcome(reply))]
    /\ jars' = jarsAfter(calls[c].sent, reply)
    /\ caches' = cachesAfter(calls[c].sent, reply)
    /\ UNCHANGED <<variant, genericGotOptions>>

\* the caller takes the settled call's value or exception
returns(c) ==
    /\ calls[c].pc = "settled"
    /\ calls' = [calls EXCEPT ![c] = IdleCall]
    /\ UNCHANGED <<variant, genericGotOptions, jars, caches>>

----------------------------------------------------------------------------
\* One context, one call at a time, every options object

InitContext ==
    /\ variant \in Variants
    /\ genericGotOptions = <<NewGotOptions(1)>>
    /\ jars = <<{}>>
    /\ caches = <<{}>>
    /\ calls = [c \in Slots |-> IdleCall]
    /\ run = IdleRun
    /\ test = IdleTest

NextNormalize ==
    \/ \E op \in {"api", "json"}, p \in Paths, o \in ApiOptions :
          api(1, 1, op, p, o) /\ UNCHANGED <<run, test>>
    \/ \E p \in Paths, o \in ApiOptions : delete(1, 1, p, o) /\ UNCHANGED <<run, test>>
    \/ \E m \in {"POST", "PUT"}, p \in Paths, o \in WithBodyOptions :
          _withBody(1, 1, m, p, o) /\ UNCHANGED <<run, test>>
    \/ \E m \in {"POST", "PUT"}, p \in Paths :
          _withBodyNoOptions(1, 1, m, p) /\ UNCHANGED <<run, test>>
    \/ bufferResolves(1) /\ UNCHANGED <<run, test>>
    \/ \E reply \in Replies({}) : gotReplies(1, reply) /\ UNCHANGED <<run, test>>
    \/ returns(1) /\ UNCHANGED <<run, test>>

SpecNormalize == InitContext /\ [][NextNormalize]_vars

\* One context, overlapping calls
Next ==
    \/ \E c \in Slots, op \in {"api", "json"}, p \in Paths, o \in SomeApiOptions :
          api(c, 1, op, p, o) /\ UNCHANGED <<run, test>>
    \/ \E c \in Slots, p \in Paths, o \in SomeApiOptions :
          delete(c, 1, p, o) /\ UNCHANGED <<run, test>>
    \/ \E c \in Slots, m \in {"POST", "PUT"}, p \in Paths, o \in SomeWithBodyOptions :
          _withBody(c, 1, m, p, o) /\ UNCHANGED <<run, test>>
    \/ \E c \in Slots, m \in {"POST", "PUT"}, p \in Paths :
          _withBodyNoOptions(c, 1, m, p) /\ UNCHANGED <<run, test>>
    \/ \E c \in Slots : bufferResolves(c) /\ UNCHANGED <<run, test>>
    \/ \E c \in Slots, reply \in SomeReplies : gotReplies(c, reply) /\ UNCHANGED <<run, test>>
    \/ \E c \in Slots : returns(c) /\ UNCHANGED <<run, test>>

Spec == InitContext /\ [][Next]_vars

----------------------------------------------------------------------------
\* Claims about post and put (checked under SpecNormalize)

WithBodyCalls == { c \in Slots : calls[c].op \in {"post", "put"} /\ calls[c].pc # "idle" }
HandedToGot == { c \in WithBodyCalls : calls[c].sent.via # "none" }

GivenBody(c) == Get(calls[c].given, "body", UndefBody)
GivenHeaders(c) == Get(calls[c].given, "headers", NoProps)
GivenJsonOff(c) == "json" \in DOMAIN calls[c].given /\ calls[c].given.json = FALSE
Deferred(c) == GivenBody(c).tag = "function"
\* the body after resolution, read off the caller's argument
ResolvedTag(c) == IF Deferred(c) THEN GivenBody(c).ret ELSE GivenBody(c).tag
SentBody(c) == Get(calls[c].sent.options, "body", UndefBody)
SentHeaders(c) == Get(calls[c].sent.options, "headers", NoProps)

\* C1: a body function is invoked exactly once (never twice), before the body
\* is classified; what reaches got is made from its return value: the buffer of
\* a returned Multipart, the JSON text of any other value unless json is false
\* (then the value itself), and never the function; a body function that throws
\* sends nothing.
C1_DeferredBodyResolvedOnce ==
    \A c \in WithBodyCalls :
        Deferred(c) =>
            /\ calls[c].invoked = 1
            /\ calls[c].events[1] = "invoke"
            /\ \A i \in 2..Len(calls[c].events) : calls[c].events[i] # "invoke"
            /\ calls[c].pc = "awaitBuffer" => calls[c].options.body = Mp(GivenBody(c).v)
            /\ GivenBody(c).ret = "throw" => calls[c].sent = NoSent /\ calls[c].result.kind = "error"
            /\ c \in HandedToGot =>
                 /\ SentBody(c).tag # "function"
                 /\ SentBody(c) =
                      CASE GivenBody(c).ret = "multipart" -> Body("buffer", GivenBody(c).v, "none")
                        [] GivenBody(c).ret = "undefined" -> UndefBody
                        [] GivenBody(c).ret = "literal" /\ GivenJsonOff(c) -> Lit(GivenBody(c).v)
                        [] OTHER -> Body("jsontext", GivenBody(c).v, "none")

C1_Witness ==
    \E c \in HandedToGot :
        /\ Deferred(c) /\ GivenBody(c).ret = "multipart"
        /\ SentBody(c).tag = "buffer"
        /\ calls[c].events = <<"invoke", "multipart">>

\* C2 as claimed: with a Multipart body (given or returned by a body function)
\* and any json option, got receives the buffer, the JSON branch does not run,
\* no default Content-Type: application/json is added, and every header of
\* getHeaders(false) is in the outgoing headers with the handle's value.
C2_MultipartHeadersFromHandle ==
    \A c \in HandedToGot :
        ResolvedTag(c) = "multipart" =>
            LET handle == getHeaders(Mp(GivenBody(c).v), FALSE)
            IN /\ SentBody(c) = Body("buffer", GivenBody(c).v, "none")
               /\ \A i \in 1..Len(calls[c].events) : calls[c].events[i] # "json"
               /\ "Content-Type" \in DOMAIN SentHeaders(c) => "Content-Type" \in DOMAIN GivenHeaders(c)
               /\ \A k \in DOMAIN handle :
                     k \in DOMAIN SentHeaders(c) /\ SentHeaders(c)[k] = handle[k]

\* C2 amended: the same, except that a header of getHeaders(false) which the
\* caller also supplied carries the caller's value.
C2_MultipartBeforeJson ==
    \A c \in HandedToGot :
        ResolvedTag(c) = "multipart" =>
            LET handle == getHeaders(Mp(GivenBody(c).v), FALSE)
            IN /\ SentBody(c) = Body("buffer", GivenBody(c).v, "none")
               /\ \A i \in 1..Len(calls[c].events) : calls[c].events[i] # "json"
               /\ "Content-Type" \in DOMAIN SentHeaders(c) => "Content-Type" \in DOMAIN GivenHeaders(c)
               /\ \A k \in DOMAIN handle :
                     /\ k \in DOMAIN SentHeaders(c)
                     /\ SentHeaders(c)[k] =
                          IF k \in DOMAIN GivenHeaders(c) THEN GivenHeaders(c)[k] ELSE handle[k]

C2_Witness ==
    \E c \in HandedToGot :
        /\ GivenBody(c) = Mp("m1")
        /\ "json" \in DOMAIN calls[c].given /\ calls[c].given.json = TRUE
        /\ SentBody(c).tag = "buffer"
        /\ SentHeaders(c) = getHeaders(Mp("m1"), FALSE)

\* C9: in the headers post and put hand to got, every header the caller gave
\* has the caller's value; every header the normalizer adds (the handle's for a
\* Multipart body, Content-Type: application/json for a JSON body, none when
\* json is false) that the caller did not give has the normalizer's value; and
\* there is no other header.
C9_CallerHeadersWin ==
    \A c \in HandedToGot :
        LET added == CASE ResolvedTag(c) = "multipart" -> getHeaders(Mp(GivenBody(c).v), FALSE)
                       [] ResolvedTag(c) # "multipart" /\ ~GivenJsonOff(c) -> JSONHeader
                       [] OTHER -> NoProps
        IN /\ DOMAIN SentHeaders(c) = (DOMAIN added) \cup (DOMAIN GivenHeaders(c))
           /\ \A k \in DOMAIN GivenHeaders(c) : SentHeaders(c)[k] = GivenHeaders(c)[k]
           /\ \A k \in (DOMAIN added) \ (DOMAIN GivenHeaders(c)) : SentHeaders(c)[k] = added[k]

C9_Witness ==
    \E c \in HandedToGot :
        /\ ResolvedTag(c) = "literal" /\ ~GivenJsonOff(c)
        /\ GivenHeaders(c) = "Content-Type" :> "text/plain"
        /\ SentHeaders(c) = "Content-Type" :> "text/plain"

----------------------------------------------------------------------------
\* Claims about the cache option (SpecNormalize) and the shared defaults (Spec)

AllHandedToGot == { c \in Slots : calls[c].sent.via # "none" }
GivenCacheFalsy(c) == Falsy(Get(calls[c].given, "cache", UndefinedRef))
SharedCache(c) == Ref("Map", calls[c].ctx)

\* C3 as claimed: whatever the method, a call whose cache option is falsy or
\* absent hands got options without a cache entry, and the context's own cache
\* reaches got only from a call whose cache option is not falsy.
C3_NoCacheEntryWhenFalsy ==
    \A c \in AllHandedToGot :
        /\ GivenCacheFalsy(c) => "cache" \notin DOMAIN calls[c].sent.options
        /\ Get(calls[c].sent.options, "cache", UndefinedRef) = SharedCache(c) => ~GivenCacheFalsy(c)

\* C3 amended: post and put hand got a cache entry exactly when the caller's
\* cache option is truthy, and then the caller's; api, json and delete always
\* hand got a cache entry: the caller's value (falsy or not) when one is given,
\* the context's own cache when none is.
C3_CachePerMethod ==
    \A c \in AllHandedToGot :
        LET out == calls[c].sent.options
        IN IF calls[c].op \in {"post", "put"}
           THEN /\ "cache" \in DOMAIN out <=> ~GivenCacheFalsy(c)
                /\ "cache" \in DOMAIN out => out.cache = calls[c].given.cache
           ELSE /\ "cache" \in DOMAIN out
                /\ out.cache = Get(calls[c].given, "cache", SharedCache(c))

C3_Witness ==
    \E c \in AllHandedToGot :
        /\ calls[c].op = "put"
        /\ "cache" \in DOMAIN calls[c].given /\ calls[c].given.cache = Ref("zero", 0)
        /\ "cache" \notin DOMAIN calls[c].sent.options
        /\ genericGotOptions[calls[c].ctx].cache = SharedCache(c)

\* the keys an outgoing options object may get from the normalizer itself
DefaultKeys == DOMAIN NewGotOptions(1)

\* the options handed to got are made of the call's own arguments and the
\* defaults as constructed, and of nothing else
OwnArgumentsOnly(c) ==
    LET out == calls[c].sent.options
        given == calls[c].given
    IN /\ DOMAIN out \subseteq (DOMAIN given) \cup DefaultKeys \cup {"headers", "method", "body"}
       /\ \A k \in (DOMAIN out) \ {"headers", "method", "body"} :
             out[k] = IF k \in DOMAIN given THEN given[k] ELSE NewGotOptions(calls[c].ctx)[k]
       /\ "method" \in DOMAIN out =>
             out.method \in {Get(given, "method", "none"), "POST", "PUT", "DELETE"}
       /\ "body" \in DOMAIN out => out.body.v \in {Get(given, "body", UndefBody).v, "none"}
       /\ "headers" \in DOMAIN out =>
             /\ DOMAIN out.headers \subseteq
                   (DOMAIN Get(given, "headers", NoProps)) \cup {"Content-Type", "content-type"}
             /\ \A h \in DOMAIN Get(given, "headers", NoProps) : out.headers[h] = given.headers[h]

\* C10: whatever calls have run or are in flight, the context's default
\* options object is as constructed (same cache, same jar, same timeout, no
\* other entry), every caller's options object is as it was passed, and the
\* options each call hands to got come from its own arguments and the defaults.
C10_DefaultsAndArgumentsUntouched ==
    /\ genericGotOptions = <<NewGotOptions(1)>>
    /\ \A c \in Slots : calls[c].caller = calls[c].given
    /\ \A c \in AllHandedToGot : OwnArgumentsOnly(c)

C10_Witness ==
    \E c, d \in Slots :
        /\ calls[c].pc = "awaitBuffer" /\ GivenCacheFalsy(c) /\ Deferred(c)
        /\ calls[d].pc = "settled" /\ calls[d].result.kind = "error"
        /\ calls[d].op = "json" /\ "cache" \in DOMAIN calls[d].given

----------------------------------------------------------------------------
\* TAPContextGot.setup: the setup test, the hooks it registers, teardown

Logged(present, log, event) == IF present THEN Append(log, event) ELSE log

\* the setup test's callback up to `await integrationInstance.start?.()`:
\* the context is constructed (as context number id), start is called if
\* the instance has it
setupBegin(r, id) ==
    [r EXCEPT !.pc = "awaitStart", !.context = id,
              !.log = Logged(r.hooks.start, @, "start")]

\* the callback after the await: a rejected start ends it; otherwise
\* tap.beforeEach and tap.teardown are registered and the callback returns
setupResume(r, ok) ==
    IF ~ok THEN [r EXCEPT !.pc = "setupFailed", !.log = Append(@, "start failed")]
    ELSE [r EXCEPT !.pc = "started", !.beforeEach = TRUE, !.teardown = TRUE,
                   !.log = Append(Append(Logged(r.hooks.start, @, "started"),
                                         "beforeEach"), "teardown")]

\* a beforeEach hook that constructs a context for each test case
beforeEachHook_Fresh(r, n) == n + 1

\* the beforeEach hook, t.context = context: the context id the test case
\* gets (n contexts exist so far)
beforeEachHook(r, n) == r.context

\* the teardown hook up to `await integrationInstance.stop?.()`
teardownBegin(r) ==
    [r EXCEPT !.pc = "awaitStop", !.log = Logged(r.hooks.stop, @, "stop")]

\* the teardown hook calling stop and checkStopped without awaiting stop
teardownResume_NoAwait(r, ok) ==
    [r EXCEPT !.pc = "awaitCheckStopped",
              !.log = Logged(r.hooks.stop, Logged(r.hooks.checkStopped, @, "checkStopped"),
                             IF ok THEN "stopped" ELSE "stop failed")]

\* the teardown hook after stop settled: a rejected stop ends it; otherwise
\* checkStopped is called if the instance has it
teardownResume(r, ok) ==
    IF ~ok THEN [r EXCEPT !.pc = "ended", !.log = Append(@, "stop failed")]
    ELSE [r EXCEPT !.pc = "awaitCheckStopped",
                   !.log = Logged(r.hooks.checkStopped,
                                  Logged(r.hooks.stop, @, "stopped"), "checkStopped")]

\* the teardown hook after checkStopped settled
teardownEnd(r, ok) ==
    [r EXCEPT !.pc = "ended",
              !.log = Logged(r.hooks.checkStopped, @,
                             IF ok THEN "checkedStopped" ELSE "checkStopped failed")]

\* tap runs the setup test: new this(integrationInstance), then start
setupTestBegins ==
    /\ run.pc = "queued"
    /\ LET id == Len(genericGotOptions) + 1
       IN /\ run' = setupBegin(run, id)
          /\ genericGotOptions' = Append(genericGotOptions, NewGotOptions(id))
          /\ jars' = Append(jars, {})
          /\ caches' = Append(caches, {})
    /\ UNCHANGED <<variant, calls, test>>

\* start settles (an absent start cannot reject)
startSettles(ok) ==
    /\ run.pc = "awaitStart"
    /\ ok \/ run.hooks.start
    /\ run' = setupResume(run, ok)
    /\ UNCHANGED <<variant, genericGotOptions, jars, caches, calls, test>>

\* tap ends the setup test and goes on to the test cases
setupTestEnds ==
    /\ run.pc = "started"
    /\ run' = [run EXCEPT !.pc = "running"]
    /\ UNCHANGED <<variant, genericGotOptions, jars, caches, calls, test>>

\* tap begins the next test case: the beforeEach hook, if registered, runs
testBegins ==
    /\ run.pc \in {"running", "setupFailed"}
    /\ test.pc = "none"
    /\ run.cases < MaxTests
    /\ LET n == Len(genericGotOptions)
           id == IF run.beforeEach THEN beforeEachHook(run, n) ELSE 0
       IN /\ test' = [IdleTest EXCEPT !.pc = "body", !.context = id]
          /\ genericGotOptions' = IF id > n THEN Append(genericGotOptions, NewGotOptions(id))
                                  ELSE genericGotOptions
          /\ jars' = IF id > n THEN Append(jars, {}) ELSE jars
          /\ caches' = IF id > n THEN Append(caches, {}) ELSE caches
    /\ run' = [run EXCEPT !.cases = @ + 1, !.log = Append(@, "case")]
    /\ UNCHANGED <<variant, calls>>

\* the test case ends
testEnds ==
    /\ test.pc = "asserted"
    /\ run' = [run EXCEPT
                 !.written = @ \cup (IF test.context > 0 THEN jars[test.context] ELSE {}),
                 !.cached = @ \cup (IF test.context > 0 THEN caches[test.context] ELSE {})]
    /\ test' = IdleTest
    /\ UNCHANGED <<variant, genericGotOptions, jars, caches, calls>>

\* all test cases are done: tap runs the teardown hook
teardownBegins ==
    /\ run.pc = "running"
    /\ run.teardown
    /\ test.pc = "none"
    /\ run' = teardownBegin(run)
    /\ UNCHANGED <<variant, genericGotOptions, jars, caches, calls, test>>

stopSettles(ok) ==
    /\ run.pc = "awaitStop"
    /\ ok \/ run.hooks.stop
    /\ run' = teardownResume(run, ok)
    /\ UNCHANGED <<variant, genericGotOptions, jars, caches, calls, test>>

checkStoppedSettles(ok) ==
    /\ run.pc = "awaitCheckStopped"
    /\ ok \/ run.hooks.checkStopped
    /\ run' = teardownEnd(run, ok)
    /\ UNCHANGED <<variant, genericGotOptions, jars, caches, calls, test>>

----------------------------------------------------------------------------
\* The assertions setup adds to tap's Test

SuccessAssertions == {"checkGet", "matchGet", "checkPost", "checkPut", "checkDelete"}
FailureAssertions ==
    {"apiRejects", "checkGetError", "checkPostError", "checkPutError", "checkDeleteError"}

\* Test.addAssert(name, ...) of each variant
Assertions(v) ==
    IF v = "index"
    THEN {"checkGet", "matchGet", "checkGetError", "checkPost", "checkPostError"}
    ELSE SuccessAssertions \cup FailureAssertions

\* the method an assertion requests with
methodOf(name) ==
    CASE name \in {"checkPost", "checkPostError"} -> "POST"
      [] name \in {"checkPut", "checkPutError"} -> "PUT"
      [] name \in {"checkDelete", "checkDeleteError"} -> "DELETE"
      [] OTHER -> "GET"

\* what `message ||` falls back to
defaultMessage(name, p, options, v) ==
    CASE name = "apiRejects" -> Get(options, "method", "GET") \o " " \o p
      [] v = "index" /\ name \in {"checkGet", "matchGet", "checkPost"} -> p
      [] OTHER -> methodOf(name) \o " " \o p

\* message || default ("": no message argument, as Test.addAssert passes it)
messageOf(name, p, options, message, v) ==
    IF message # "" THEN message ELSE defaultMessage(name, p, options, v)

\* tap: one call of a reporting primitive
Report(prim, ok, message, extra, found) ==
    [prim |-> prim, ok |-> ok, message |-> message, extra |-> extra, found |-> found]

\* tap: t.strictSame(found, wanted)
strictSame(found, wanted) == found = wanted

\* tap: t.match(found, wanted), wanted an object pattern
match(found, wanted) == \A k \in DOMAIN wanted : k \in DOMAIN found /\ found[k] = wanted[k]

\* RegExp search of a pattern's words in a message
Matches(pattern, words) ==
    \E i \in 0..(Len(words) - Len(pattern)) : SubSeq(words, i + 1, i + Len(pattern)) = pattern

\* a success assertion without its try/catch
successAssert_NoCatch(t, outcome, v) ==
    LET message == messageOf(t.name, t.api, t.options, t.message, v)
    IN IF outcome.kind = "value"
       THEN [reports |-> <<Report(IF t.name = "matchGet" THEN "match" ELSE "strictSame",
                                  IF t.name = "matchGet" THEN match(outcome.value, t.expected)
                                  ELSE strictSame(outcome.value, t.expected),
                                  message, t.extra, outcome)>>,
             threw |-> FALSE]
       ELSE [reports |-> <<>>, threw |-> TRUE]

\* checkGet, matchGet, checkPost, checkPut, checkDelete once the request has
\* settled: try { this.strictSame / this.match (await ...) } catch { this.error }
successAssert(t, outcome, v) ==
    LET message == messageOf(t.name, t.api, t.options, t.message, v)
    IN IF outcome.kind = "value"
       THEN [reports |-> <<Report(IF t.name = "matchGet" THEN "match" ELSE "strictSame",
                                  IF t.name = "matchGet" THEN match(outcome.value, t.expected)
                                  ELSE strictSame(outcome.value, t.expected),
                                  message, t.extra, outcome)>>,
             threw |-> FALSE]
       ELSE [reports |-> <<Report("error", FALSE, message, t.extra, outcome)>>,
             threw |-> FALSE]

\* apiRejects, checkGetError, checkPostError, checkPutError, checkDeleteError
\* once the request has settled: this.rejects(promise, this.context.httpError[error],
\* message, extra); rejects with no expected error passes on any rejection
failureAssert(t, outcome, v) ==
    LET ok == /\ outcome.kind = "error"
              /\ t.error \in DOMAIN httpError => Matches(httpError[t.error], outcome.message)
    IN [reports |-> <<Report("rejects", ok,
                             messageOf(t.name, t.api, t.options, t.message, v), t.extra, outcome)>>,
        threw |-> FALSE]

\* an assertion in a test case that has no TAPContextGot as t.context:
\* this.context.json (post, ...) is not a function; a success assertion
\* catches that, a failure assertion throws it
NoContextError == Thrown("TypeError", <<"this.context.json", "is", "not", "a", "function">>)

withoutContext(t, v) ==
    IF t.name \in SuccessAssertions THEN successAssert(t, NoContextError, v)
    ELSE [reports |-> <<>>, threw |-> TRUE]

AssertBodies == { Lit("a"), Fn("multipart", "m1"), Fn("throw", "none") }
Expectations == { [id |-> 1, name |-> "bolt"], [name |-> "bolt"] }
ErrorArgs == { "404", "405", "500" }
Messages == { "", "custom" }
Extras == { NoProps, [todo |-> TRUE] }
RejectsOptions == { NoProps, [method |-> "POST"] }

\* each assertion is called with the arguments it takes, the others stay at
\* their defaults
TakesArguments(name, body, expected, error, options) ==
    /\ name \in {"checkPost", "checkPostError", "checkPut", "checkPutError"} <=> body # UndefBody
    /\ name \in SuccessAssertions <=> expected # NoProps
    /\ name \in FailureAssertions <=> error # "none"
    /\ name = "apiRejects" \/ options = NoProps

\* the request an assertion makes on this.context
request(name, ctx, p, body, options) ==
    \/ /\ name \in {"checkGet", "matchGet", "checkGetError"}
       /\ api(1, ctx, "json", p, NoProps)
    \/ /\ name = "apiRejects"
       /\ api(1, ctx, "json", p, options)
    \/ /\ name \in {"checkPost", "checkPostError"}
       /\ _withBody(1, ctx, "POST", p, [body |-> body])
    \/ /\ name \in {"checkPut", "checkPutError"}
       /\ _withBody(1, ctx, "PUT", p, [body |-> body])
    \/ /\ name \in {"checkDelete", "checkDeleteError"}
       /\ delete(1, ctx, p, NoProps)

\* the test case calls an assertion
assertCalled(name, p, body, expected, error, options, message, extra) ==
    /\ test.pc = "body"
    /\ name \in Assertions(variant)
    /\ TakesArguments(name, body, expected, error, options)
    /\ LET t == [test EXCEPT !.name = name, !.api = p, !.body = body, !.expected = expected,
                            !.error = error, !.options = options, !.message = message,
                            !.extra = extra]
       IN \/ /\ test.context = 0
             /\ LET a == withoutContext(t, variant)
                IN test' = [t EXCEPT !.pc = "asserted", !.outcome = NoContextError,
                                     !.reports = a.reports, !.threw = a.threw]
             /\ UNCHANGED <<variant, genericGotOptions, jars, caches, calls>>
          \/ /\ test.context > 0
             /\ test' = [t EXCEPT !.pc = "awaiting"]
             /\ request(name, test.context, p, body, options)
    /\ UNCHANGED run

\* the request has settled: the assertion reports to tap and returns
assertSettles ==
    /\ test.pc = "awaiting"
    /\ calls[1].pc = "settled"
    /\ LET a == IF test.name \in SuccessAssertions
                THEN successAssert(test, calls[1].result, variant)
                ELSE failureAssert(test, calls[1].result, variant)
       IN test' = [test EXCEPT !.pc = "asserted", !.outcome = calls[1].result,
                               !.reports = a.reports, !.threw = a.threw]
    /\ calls' = [calls EXCEPT ![1] = IdleCall]
    /\ UNCHANGED <<variant, genericGotOptions, jars, caches, run>>

----------------------------------------------------------------------------
\* A test run: setup, test cases calling one assertion each, teardown

Hooks == [start : BOOLEAN, stop : BOOLEAN, checkStopped : BOOLEAN]

InitHooks(HookPool) ==
    /\ variant \in Variants
    /\ genericGotOptions = <<>>
    /\ jars = <<>>
    /\ caches = <<>>
    /\ calls = [c \in Slots |-> IdleCall]
    /\ \E h \in HookPool : run = [IdleRun EXCEPT !.pc = "queued", !.hooks = h]
    /\ test = IdleTest

\* every instance, with or without each hook
InitRun == InitHooks(Hooks)

\* every instance; each test case calls one assertion, without message or extra
NextRun ==
    \/ setupTestBegins
    \/ \E ok \in BOOLEAN : startSettles(ok)
    \/ setupTestEnds
    \/ testBegins
    \/ \E name \in SuccessAssertions \cup FailureAssertions, p \in Paths,
          body \in {Fn("multipart", "m1"), UndefBody},
          expected \in {[id |-> 1, name |-> "bolt"], NoProps}, error \in {"404", "none"} :
          assertCalled(name, p, body, expected, error, NoProps, "", NoProps)
    \/ bufferResolves(1) /\ UNCHANGED <<run, test>>
    \/ \E reply \in Replies(Cookies) : gotReplies(1, reply) /\ UNCHANGED <<run, test>>
    \/ assertSettles
    \/ testEnds
    \/ teardownBegins
    \/ \E ok \in BOOLEAN : stopSettles(ok)
    \/ \E ok \in BOOLEAN : checkStoppedSettles(ok)

SpecRun == InitRun /\ [][NextRun]_vars

\* an instance with all three hooks
InitAssert == InitHooks({[start |-> TRUE, stop |-> TRUE, checkStopped |-> TRUE]})

\* every assertion with every argument
NextAssert ==
    \/ setupTestBegins
    \/ \E ok \in BOOLEAN : startSettles(ok)
    \/ setupTestEnds
    \/ testBegins
    \/ \E name \in SuccessAssertions \cup FailureAssertions, p \in Paths,
          body \in AssertBodies \cup {UndefBody}, expected \in Expectations \cup {NoProps},
          error \in ErrorArgs \cup {"none"}, options \in RejectsOptions,
          message \in Messages, extra \in Extras :
          assertCalled(name, p, body, expected, error, options, message, extra)
    \/ bufferResolves(1) /\ UNCHANGED <<run, test>>
    \/ \E reply \in Replies({}) : gotReplies(1, reply) /\ UNCHANGED <<run, test>>
    \/ assertSettles
    \/ testEnds
    \/ teardownBegins
    \/ \E ok \in BOOLEAN : stopSettles(ok)
    \/ \E ok \in BOOLEAN : checkStoppedSettles(ok)

SpecAssert == InitAssert /\ [][NextAssert]_vars

----------------------------------------------------------------------------
\* Claims about the assertions (checked under SpecAssert)

Asserted(names) == test.pc = "asserted" /\ test.name \in names

\* C4 as claimed: whatever status code a failure assertion is given, it passes
\* exactly when the request failed with a transport error whose message
\* matches /Response code <that status>/, and is reported failed otherwise.
C4_PassesIffStatusMatches ==
    Asserted(FailureAssertions) /\ test.context > 0 =>
        /\ Len(test.reports) = 1
        /\ test.reports[1].ok <=>
              /\ test.outcome.kind = "error"
              /\ test.outcome.name = "HTTPError"
              /\ Matches(Pattern(test.error), test.outcome.message)

\* C4 for the status codes that have a pattern in httpError (400, 404, 405):
\* there the failure assertions do pass exactly when the pattern matches.
C4_PassesIffRegisteredPatternMatches ==
    Asserted(FailureAssertions) /\ test.context > 0 /\ test.error \in DOMAIN httpError =>
        /\ Len(test.reports) = 1
        /\ ~test.threw
        /\ test.reports[1].prim = "rejects"
        /\ test.reports[1].ok <=>
              /\ test.outcome.kind = "error"
              /\ test.outcome.name = "HTTPError"
              /\ Matches(Pattern(test.error), test.outcome.message)

C4_Witness ==
    /\ Asserted({"checkPutError"}) /\ test.error = "405"
    /\ test.outcome.name = "HTTPError" /\ test.outcome.message[3] = "405"
    /\ test.reports[1].ok

\* C5: a success assertion reports to tap exactly once and does not throw:
\* the comparison (match for matchGet, strictSame for the others) when the
\* request resolved with parsed JSON; otherwise the error primitive, as a
\* failure, with the error caught, the message the comparison would have had
\* and the extra argument.
C5_OneReportErrorsReported ==
    Asserted(SuccessAssertions) =>
        /\ Len(test.reports) = 1
        /\ ~test.threw
        /\ LET r == test.reports[1]
           IN /\ test.outcome.kind = "value" =>
                    r.prim = (IF test.name = "matchGet" THEN "match" ELSE "strictSame")
              /\ test.outcome.kind # "value" =>
                    r.prim = "error" /\ ~r.ok /\ r.found = test.outcome
              /\ r.extra = test.extra
              /\ r.message \in (IF test.message # "" THEN {test.message}
                                ELSE {test.api, methodOf(test.name) \o " " \o test.api})

C5_Witness ==
    /\ Asserted({"checkPost"})
    /\ test.outcome.name = "SyntaxError"
    /\ test.reports = <<Report("error", FALSE, "custom", [todo |-> TRUE], test.outcome)>>

\* C6: in both variants every report of every assertion carries the given
\* message, or "<METHOD> <path>" when none was given, and the extra argument.
C6_DefaultMessageIsMethodAndPath ==
    test.pc = "asserted" /\ test.context > 0 =>
        \A i \in 1..Len(test.reports) :
            /\ test.reports[i].extra = test.extra
            /\ test.reports[i].message =
                 IF test.message # "" THEN test.message
                 ELSE (IF test.name = "apiRejects" THEN Get(test.options, "method", "GET")
                       ELSE methodOf(test.name)) \o " " \o test.api

----------------------------------------------------------------------------
\* Claims about the test run (checked under SpecRun)

RunState ==
    CASE run.pc = "ended" -> "Stopped"
      [] run.pc \in {"running", "awaitStop", "awaitCheckStopped"} -> "Running"
      [] run.pc = "started" -> "Started"
      [] OTHER -> "Uninitialized"

Rank(state) ==
    CASE state = "Uninitialized" -> 0 [] state = "Started" -> 1
      [] state = "Running" -> 2 [] OTHER -> 3

Places(e) == { i \in 1..Len(run.log) : run.log[i] = e }
Precedes(e, f) == Places(e) # {} /\ \A i \in Places(e), j \in Places(f) : i < j

C7_Order ==
    /\ \A e \in {"start", "stop", "checkStopped"} : Cardinality(Places(e)) <= 1
    /\ run.beforeEach /\ run.hooks.start => Precedes("started", "beforeEach")
    /\ run.beforeEach => Precedes("beforeEach", "case")
    /\ test.context > 0 => run.beforeEach
    /\ run.pc \in {"awaitStop", "awaitCheckStopped", "ended"} => test.pc = "none"
    /\ Places("stop") # {} => \A i \in Places("case"), j \in Places("stop") : i < j
    /\ Places("checkStopped") # {} /\ run.hooks.stop => Precedes("stopped", "checkStopped")
    /\ ~run.hooks.start =>
          Places("start") \cup Places("started") \cup Places("start failed") = {}
          /\ run.pc # "setupFailed"
    /\ ~run.hooks.stop => Places("stop") \cup Places("stopped") \cup Places("stop failed") = {}
    /\ ~run.hooks.checkStopped =>
          Places("checkStopped") \cup Places("checkedStopped") \cup Places("checkStopped failed") = {}

C7_Step ==
    /\ Rank(RunState') \in {Rank(RunState), Rank(RunState) + 1}
    /\ RunState = "Stopped" => run' = run /\ test' = test
    /\ run.pc \in {"awaitStop", "awaitCheckStopped"} => run'.cases = run.cases

\* C7: the run only moves Uninitialized -> Started -> Running -> Stopped, one
\* step at a time; start, when the instance has it, has completed before
\* beforeEach is registered, and no test case has the context before that;
\* teardown begins with no test case running and none begins after it; stop is
\* called after the last test case and checkStopped only after stop completed;
\* a hook the instance lacks is never called and fails nothing; no hook is
\* called twice, and nothing happens once Stopped.
C7_Lifecycle == [](C7_Order) /\ [][C7_Step]_vars

C7_Witness ==
    /\ RunState = "Stopped"
    /\ run.log = <<"start", "started", "beforeEach", "teardown", "case", "case",
                   "stop", "stopped", "checkStopped", "checkedStopped">>

\* C8: one context is constructed in a run; every test case begun after the
\* hooks were registered has it as t.context; every request goes through it
\* and is handed its one cookie jar (and, unless post or put dropped it, its
\* one cache); the cookies and cache entries earlier test cases left are in
\* that jar and that cache, and the cookies are what a later request sends.
C8_OneSharedContext ==
    /\ Len(genericGotOptions) = (IF run.pc = "queued" THEN 0 ELSE 1)
    /\ test.pc # "none" /\ run.beforeEach => test.context = 1 /\ run.context = 1
    /\ test.context > 0 =>
          run.written \subseteq jars[test.context] /\ run.cached \subseteq caches[test.context]
    /\ \A c \in Slots : calls[c].pc # "idle" =>
          /\ calls[c].ctx = 1
          /\ calls[c].sent.via # "none" =>
                /\ calls[c].sent.options.cookieJar = Ref("CookieJar", 1)
                /\ Get(calls[c].sent.options, "cache", Ref("Map", 1)) = Ref("Map", 1)
                /\ run.written \subseteq calls[c].sent.cookies

C8_Witness ==
    /\ run.cases = 2 /\ test.pc = "awaiting"
    /\ run.written = {"sid"} /\ run.cached = {"/widgets/1"}
    /\ calls[1].sent.cookies = {"sid"}

====
